---- MODULE Spec2Model ----
(***************************************************************************)
(* Scoring engine of the NDI compliance-assessment backend.                *)
(*                                                                         *)
(* State: the rows of the assessments, assessment_responses and evidence   *)
(* tables, the reply of the last HTTP request and the local results of the *)
(* last scoring call.  The taxonomy (domains, questions, maturity levels,  *)
(* acceptance evidence) is read-only reference data.                       *)
(*                                                                         *)
(* Numbers: a Python float that is a mean is kept as an exact fraction     *)
(* [num, den]; a value rounded to 2 decimals is an integer number of       *)
(* hundredths (3.5 is 350) and a value rounded to 1 decimal is an integer  *)
(* number of tenths (66.7 is 667).                                         *)
(***************************************************************************)
EXTENDS Integers, Sequences, FiniteSets, TLC

VARIABLES assessments, responses, evidence, reply, scores, int_coercion, seed, ndi, inherits, fn, hist,
          inflight, removed

vars == <<assessments, responses, evidence, reply, scores, int_coercion, seed, ndi, inherits, fn, hist,
          inflight, removed>>

(***************************************************************************)
(* Bounds                                                                  *)
(***************************************************************************)
\* largest number of rows of the evidence table
MaxEvidence == 1
\* largest number of answers whose mean is fed to the level function
MaxAnswers == 8

(***************************************************************************)
(* Python values                                                           *)
(***************************************************************************)
\* Python None / SQL NULL in an Optional[int] column
None == -1

\* None in an Optional[str] column
NoneStr == "None"

\* obj.name on a mapped instance that has no such attribute raises AttributeError
HasAttr(obj, name) == name \in DOMAIN obj

(***************************************************************************)
(* Exact arithmetic                                                        *)
(***************************************************************************)
Frac(n, d) == [num |-> n, den |-> d]

\* a comparison that sends a score at a threshold to the lower bucket
FracLessOrEqual(a, b) == a.num * b.den <= b.num * a.den

FracLess(a, b) == a.num * b.den < b.num * a.den

FracAdd(a, b) == Frac(a.num * b.den + b.num * a.den, a.den * b.den)

FracDiv(a, k) == Frac(a.num, a.den * k)

\* the integer nearest to n/d, ties to the even one (n >= 0, d > 0)
RoundHalfEven(n, d) ==
    LET q == n \div d
        r == n % d
    IN  IF 2 * r < d THEN q
        ELSE IF 2 * r > d THEN q + 1
        ELSE IF q % 2 = 0 THEN q ELSE q + 1

\* round(x, 2), in hundredths
Round2(x) == RoundHalfEven(100 * x.num, x.den)

\* round((x / 5) * 100, 1), in tenths
Percentage(x) == RoundHalfEven(200 * x.num, x.den)

RECURSIVE SumLevels(_)
\* sum(r.selected_level for r in rs)
SumLevels(rs) ==
    IF rs = {} THEN 0
    ELSE LET r == CHOOSE x \in rs : TRUE
         IN  r.selected_level + SumLevels(rs \ {r})

RECURSIVE SeqSum(_)
\* sum(s) of a list of fractions
SeqSum(s) == IF s = <<>> THEN Frac(0, 1) ELSE FracAdd(Head(s), SeqSum(Tail(s)))

(***************************************************************************)
(* Taxonomy store                                                          *)
(***************************************************************************)
\* the taxonomies the data file may hold: the one listed below, one without
\* domains, one whose domains have no questions, one whose domain DQ has
\* none, one with a third domain of seven questions
Seeds == {"main-data", "no_domains", "no_questions", "empty_domain", "three_domains"}

DomainCodes == {"DG", "DQ", "BIA"}

\* the NDIDomain rows of data file s, in sort_order
DomainRows(s) ==
    IF s = "no_domains" THEN <<>>
    ELSE IF s = "three_domains" THEN <<"DG", "DQ", "BIA">>
    ELSE <<"DG", "DQ">>

\* the NDIQuestion rows of domain d in data file s
QuestionRows(s, d) ==
    IF s = "no_questions" THEN {}
    ELSE IF d = "DG" THEN {"DG.MQ.1", "DG.MQ.2", "DG.MQ.3"}
    ELSE IF d = "BIA" THEN {"BIA.MQ.1", "BIA.MQ.2", "BIA.MQ.3", "BIA.MQ.4",
                            "BIA.MQ.5", "BIA.MQ.6", "BIA.MQ.7"}
    ELSE IF s = "empty_domain" THEN {}
    ELSE {"DQ.MQ.1"}

\* NDIDomain rows in sort_order
Domains == ndi.domains

\* NDIDomain.questions
DomainQuestions(d) == ndi.questions[d]

\* NDIQuestion rows
Questions == DOMAIN ndi.levels

\* the levels of a question
Levels == 0..5

AE(id, spec, inh) ==
    [evidence_id |-> id, specification_code |-> spec, inherits_from_level |-> inh]

\* NDIMaturityLevel.acceptance_evidence of the row (q, l), ordered by evidence_id
AcceptanceEvidence(q, l) ==
    IF l = 0 THEN <<>>
    ELSE IF l = 1 THEN << AE(1, NoneStr, None) >>
    ELSE IF l = 2 THEN << AE(1, "S.2.1", None), AE(2, NoneStr, 1) >>
    ELSE IF l = 3 /\ q = "DG.MQ.1"
         THEN << AE(1, "DG.1.1", None), AE(2, "DG.1.2", None), AE(3, "DG.1.3", None) >>
    ELSE IF l = 3 /\ q = "DG.MQ.2" THEN << AE(1, NoneStr, None) >>
    ELSE IF l = 3 THEN << AE(1, "S.3.1", 2) >>
    ELSE IF l = 4 THEN << AE(1, "S.4.1", 3), AE(2, NoneStr, None) >>
    ELSE << AE(1, "S.5.1", 4), AE(2, "S.5.2", None) >>

\* the inherits_from_level values the seed data may carry: as listed above, NULL in
\* every row, or the level below in every row
Inheritances == {"seeded", "none", "lower"}

\* the acceptance evidence rows of a level as stored with the
\* inherits_from_level values of v
WithInheritance(v, items, l) ==
    [i \in DOMAIN items |->
        [items[i] EXCEPT !.inherits_from_level =
            IF v = "none" THEN None
            ELSE IF v = "lower" THEN (IF l > 0 THEN l - 1 ELSE None)
            ELSE @]]

\* the (question, level) pairs the seed left without an NDIMaturityLevel row
MissingLevels == {<<"DQ.MQ.1", 4>>}

\* the NDI tables as written from data file s with the inherits_from_level
\* values of v: ndi_domains, ndi_questions by domain, and for every question
\* its ndi_maturity_levels rows with their acceptance evidence
SeedData(s, v) ==
    [domains |-> DomainRows(s),
     questions |-> [d \in DomainCodes |-> QuestionRows(s, d)],
     levels |->
        [q \in UNION {QuestionRows(s, DomainRows(s)[i]) : i \in 1..Len(DomainRows(s))} |->
            [l \in Levels |->
                IF <<q, l>> \in MissingLevels THEN {}
                ELSE {[question_id |-> q, level |-> l,
                       acceptance_evidence |-> WithInheritance(v, AcceptanceEvidence(q, l), l)]}]]]

\* the NDIMaturityLevel row of (question_id, level), or no row
MaturityLevel(q, l) ==
    IF q \in Questions /\ l \in Levels THEN ndi.levels[q][l] ELSE {}

(***************************************************************************)
(* ScoreService                                                            *)
(***************************************************************************)
\* (threshold, level) pairs
LEVEL_THRESHOLDS ==
    << <<Frac(1, 4), 0>>, <<Frac(5, 4), 1>>, <<Frac(5, 2), 2>>,
       <<Frac(4, 1), 3>>, <<Frac(19, 4), 4>>, <<Frac(501, 100), 5>> >>

RECURSIVE LevelFrom(_, _)
LevelFrom(score, i) ==
    IF i > Len(LEVEL_THRESHOLDS) THEN 5
    ELSE IF FracLess(score, LEVEL_THRESHOLDS[i][1]) THEN LEVEL_THRESHOLDS[i][2]
    ELSE LevelFrom(score, i + 1)

get_level_from_score(score) == LevelFrom(score, 1)

\* a chain whose last comparison also takes 4.75 into level 4
score_to_level_inclusive(score) ==
    IF FracLess(score, Frac(25, 100)) THEN 0
    ELSE IF FracLess(score, Frac(125, 100)) THEN 1
    ELSE IF FracLess(score, Frac(25, 10)) THEN 2
    ELSE IF FracLess(score, Frac(4, 1)) THEN 3
    ELSE IF ~FracLess(Frac(475, 100), score) THEN 4
    ELSE 5

\* assessment_service.score_to_level: the if/elif chain
score_to_level(score) ==
    IF FracLess(score, Frac(25, 100)) THEN 0
    ELSE IF FracLess(score, Frac(125, 100)) THEN 1
    ELSE IF FracLess(score, Frac(25, 10)) THEN 2
    ELSE IF FracLess(score, Frac(4, 1)) THEN 3
    ELSE IF FracLess(score, Frac(475, 100)) THEN 4
    ELSE 5

\* a chain whose first comparison also takes 0.25 into level 0
routers_score_to_level_inclusive(score) ==
    IF ~FracLess(Frac(25, 100), score) THEN 0
    ELSE IF FracLess(score, Frac(125, 100)) THEN 1
    ELSE IF FracLess(score, Frac(25, 10)) THEN 2
    ELSE IF FracLess(score, Frac(4, 1)) THEN 3
    ELSE IF FracLess(score, Frac(475, 100)) THEN 4
    ELSE 5

\* routers/assessments.score_to_level: the router's own copy of the chain
routers_score_to_level(score) ==
    IF FracLess(score, Frac(25, 100)) THEN 0
    ELSE IF FracLess(score, Frac(125, 100)) THEN 1
    ELSE IF FracLess(score, Frac(25, 10)) THEN 2
    ELSE IF FracLess(score, Frac(4, 1)) THEN 3
    ELSE IF FracLess(score, Frac(475, 100)) THEN 4
    ELSE 5

\* a query without its WHERE clause
get_responses_of_all(a) == responses

\* the rows of one assessment
get_responses(a) == {r \in responses : r.assessment_id = a}

\* AssessmentResponse.evidence
ResponseEvidence(r) == {ev \in evidence : ev.response_id = r.id}

\* count(NDIQuestion.id) or 42
get_total_questions == IF Cardinality(Questions) = 0 THEN 42 ELSE Cardinality(Questions)

\* the responses of the domain that carry a selected level
DomainResponses(rs, d) ==
    {r \in rs : r.question_id \in DomainQuestions(d) /\ r.selected_level # None}

\* a mean that counts the unanswered questions of the domain as 0
DomainAvgOverAll(rs, d) ==
    LET dr == DomainResponses(rs, d)
    IN  IF dr # {} THEN Frac(SumLevels(dr), Cardinality(DomainQuestions(d))) ELSE Frac(0, 1)

\* the mean of the selected levels of a domain, 0.0 when nothing is answered
DomainAvg(rs, d) ==
    LET dr == DomainResponses(rs, d)
    IN  IF dr # {} THEN Frac(SumLevels(dr), Cardinality(dr)) ELSE Frac(0, 1)

\* a domain entry that reports the level of an unanswered domain as unknown
DomainScoreUnknown(rs, d) ==
    LET dr == DomainResponses(rs, d)
        avg_score == DomainAvg(rs, d)
    IN  [domain_code |-> d,
         score |-> Round2(avg_score),
         level |-> IF dr # {} THEN get_level_from_score(avg_score) ELSE None,
         answered_count |-> Cardinality(dr),
         total_questions |-> Cardinality(DomainQuestions(d)),
         percentage |-> IF avg_score.num > 0 THEN Percentage(avg_score) ELSE 0]

DomainScoreOf(rs, d) ==
    LET dr == DomainResponses(rs, d)
        avg_score == DomainAvg(rs, d)
    IN  [domain_code |-> d,
         score |-> Round2(avg_score),
         level |-> IF dr # {} THEN get_level_from_score(avg_score) ELSE 0,
         answered_count |-> Cardinality(dr),
         total_questions |-> Cardinality(DomainQuestions(d)),
         percentage |-> IF avg_score.num > 0 THEN Percentage(avg_score) ELSE 0]

\* a list that also holds 0.0 for every domain without an answer
AllScoresWithZeros(rs) == [i \in 1..Len(Domains) |-> DomainAvg(rs, Domains[i])]

\* the means of the domains that have an answer, in domain order
AllScores(rs) ==
    LET answered == SelectSeq(Domains, LAMBDA d : DomainResponses(rs, d) # {})
    IN  [i \in 1..Len(answered) |-> DomainAvg(rs, answered[i])]

\* an overall score that adds the domain means up without dividing
OverallScoreSummed(all_scores) ==
    IF all_scores # <<>> THEN SeqSum(all_scores) ELSE Frac(0, 1)

\* sum(all_scores) / len(all_scores) if all_scores else 0.0
OverallScore(all_scores) ==
    IF all_scores # <<>> THEN FracDiv(SeqSum(all_scores), Len(all_scores)) ELSE Frac(0, 1)

RECURSIVE SeqIntSum(_)
SeqIntSum(s) == IF s = <<>> THEN 0 ELSE Head(s) + SeqIntSum(Tail(s))

\* a result whose overall level is the bucket of the rounded overall score
calculate_maturity_score_of_rounded(a) ==
    LET rs == get_responses(a)
        domain_scores == [i \in 1..Len(Domains) |-> DomainScoreOf(rs, Domains[i])]
        overall_score == OverallScore(AllScores(rs))
    IN  [overall_score |-> Round2(overall_score),
         overall_level |-> get_level_from_score(Frac(Round2(overall_score), 100)),
         overall_percentage |-> Percentage(overall_score),
         domain_scores |-> domain_scores,
         answered_count |-> SeqIntSum([i \in 1..Len(domain_scores) |-> domain_scores[i].answered_count]),
         total_questions |-> get_total_questions]

\* ScoreService.calculate_maturity_score
calculate_maturity_score(a) ==
    LET rs == get_responses(a)
        domain_scores == [i \in 1..Len(Domains) |-> DomainScoreOf(rs, Domains[i])]
        overall_score == OverallScore(AllScores(rs))
    IN  [overall_score |-> Round2(overall_score),
         overall_level |-> get_level_from_score(overall_score),
         overall_percentage |-> Percentage(overall_score),
         domain_scores |-> domain_scores,
         answered_count |-> SeqIntSum([i \in 1..Len(domain_scores) |-> domain_scores[i].answered_count]),
         total_questions |-> get_total_questions]

RECURSIVE SeqOfSet(_)
\* the rows of a query result as a list (the query states no order)
SeqOfSet(S) ==
    IF S = {} THEN <<>>
    ELSE LET e == CHOOSE x \in S : TRUE
         IN  <<e>> \o SeqOfSet(S \ {e})

RECURSIVE Flatten(_)
\* the concatenation of a list of lists
Flatten(ss) == IF ss = <<>> THEN <<>> ELSE Head(ss) \o Flatten(Tail(ss))

\* a lookup that appends the items of the level the row's items inherit from
LevelEvidenceWithInherited(r) ==
    LET ml == MaturityLevel(r.question_id, r.selected_level)
        own == IF ml = {} THEN <<>> ELSE (CHOOSE m \in ml : TRUE).acceptance_evidence
        from == {own[i].inherits_from_level : i \in DOMAIN own} \ {None}
        lower == IF from = {} THEN {}
                 ELSE MaturityLevel(r.question_id, CHOOSE x \in from : \A y \in from : y <= x)
    IN  IF lower = {} THEN own ELSE own \o (CHOOSE m \in lower : TRUE).acceptance_evidence

\* the acceptance evidence of the response's selected level; empty without a row
LevelEvidence(r) ==
    LET ml == MaturityLevel(r.question_id, r.selected_level)
    IN  IF ml = {} THEN <<>> ELSE (CHOOSE m \in ml : TRUE).acceptance_evidence

\* [ev.evidence_id for ev in response.evidence if ev.evidence_id] raises
\* AttributeError as soon as one Evidence instance has no such attribute
UploadedIdsRaises(r) == \E ev \in ResponseEvidence(r) : ~HasAttr(ev, "evidence_id")

uploaded_evidence_ids(r) ==
    {ev.evidence_id : ev \in {e \in ResponseEvidence(r) : e.evidence_id # None /\ e.evidence_id # 0}}

\* a loop that goes on to the uploaded ids when the level row is missing
ReachesUploadWithoutRow(r) ==
    /\ r.selected_level # None
    /\ (LevelEvidence(r) # <<>> \/ MaturityLevel(r.question_id, r.selected_level) = {})

\* the body of the loop over responses reaches the read of the uploaded ids
ReachesUpload(r) == r.selected_level # None /\ LevelEvidence(r) # <<>>

Tagged(item) == item.specification_code # NoneStr /\ item.specification_code # ""

\* a loop that appends a non_compliant record for a response it cannot check
SpecificationStatusesOrPlaceholder(r) ==
    IF ~ReachesUpload(r)
    THEN IF r.selected_level = None THEN <<>>
         ELSE << [specification_code |-> NoneStr, question_code |-> r.question_id,
                  evidence_id |-> 0, status |-> "non_compliant", has_evidence |-> FALSE] >>
    ELSE LET tagged == SelectSeq(LevelEvidence(r), Tagged)
             ids == uploaded_evidence_ids(r)
         IN  [i \in 1..Len(tagged) |->
                LET is_uploaded == tagged[i].evidence_id \in ids
                IN  [specification_code |-> tagged[i].specification_code,
                     question_code |-> r.question_id,
                     evidence_id |-> tagged[i].evidence_id,
                     status |-> IF is_uploaded THEN "compliant" ELSE "non_compliant",
                     has_evidence |-> is_uploaded]]

\* the SpecificationStatus records one response appends
SpecificationStatuses(r) ==
    IF ~ReachesUpload(r) THEN <<>>
    ELSE LET tagged == SelectSeq(LevelEvidence(r), Tagged)
             ids == uploaded_evidence_ids(r)
         IN  [i \in 1..Len(tagged) |->
                LET is_uploaded == tagged[i].evidence_id \in ids
                IN  [specification_code |-> tagged[i].specification_code,
                     question_code |-> r.question_id,
                     evidence_id |-> tagged[i].evidence_id,
                     status |-> IF is_uploaded THEN "compliant" ELSE "non_compliant",
                     has_evidence |-> is_uploaded]]

\* the subtraction with its operands swapped
NonCompliantSwapped(total, compliant) == compliant - total

\* total - compliant
NonCompliant(total, compliant) == total - compliant

\* compliant == total and total > 0
IsCompliant(total, compliant) == compliant = total /\ total > 0

\* round((compliant / total * 100), 1) if total > 0 else 0, in tenths
CompliancePercentage(total, compliant) ==
    IF total > 0 THEN RoundHalfEven(1000 * compliant, total) ELSE 0

calculate_compliance_score(a) ==
    LET rs == SeqOfSet(get_responses(a))
    IN  IF \E i \in 1..Len(rs) : ReachesUpload(rs[i]) /\ UploadedIdsRaises(rs[i])
        THEN [exception |-> "AttributeError"]
        ELSE LET specifications_status == Flatten([i \in 1..Len(rs) |-> SpecificationStatuses(rs[i])])
                 total == Len(specifications_status)
                 compliant == Len(SelectSeq(specifications_status, LAMBDA st : st.status = "compliant"))
             IN  [exception |-> NoneStr,
                  compliant_count |-> compliant,
                  partial_count |-> 0,
                  non_compliant_count |-> NonCompliant(total, compliant),
                  total_specifications |-> total,
                  compliance_percentage |-> CompliancePercentage(total, compliant),
                  is_compliant |-> IsCompliant(total, compliant),
                  specifications_detail |-> specifications_status]

\* entries that report every tagged item as uploaded
SpecStatusUploaded(r) ==
    LET tagged == SelectSeq(LevelEvidence(r), Tagged)
    IN  [i \in 1..Len(tagged) |->
            [code |-> tagged[i].specification_code,
             evidence_id |-> tagged[i].evidence_id,
             uploaded |-> TRUE]]

\* the specification entries of one question detail
SpecStatus(r) ==
    LET tagged == SelectSeq(LevelEvidence(r), Tagged)
        ids == uploaded_evidence_ids(r)
    IN  [i \in 1..Len(tagged) |->
            [code |-> tagged[i].specification_code,
             evidence_id |-> tagged[i].evidence_id,
             uploaded |-> tagged[i].evidence_id \in ids]]

\* the QuestionDetail of one answered response
QuestionDetailOf(r) ==
    LET spec_status == SpecStatus(r)
    IN  [question_code |-> r.question_id,
         selected_level |-> r.selected_level,
         required_evidence_count |-> Len(LevelEvidence(r)),
         uploaded_evidence_count |-> Cardinality(ResponseEvidence(r)),
         specifications_status |-> spec_status,
         all_specs_compliant |->
            IF spec_status # <<>>
            THEN \A i \in 1..Len(spec_status) : spec_status[i].uploaded
            ELSE TRUE]

\* ScoreService.get_combined_assessment: the uploaded ids are read for every
\* answered response, whatever its level row holds
combined_assessment(a) ==
    LET maturity == calculate_maturity_score(a)
        compliance == calculate_compliance_score(a)
        answered == SelectSeq(SeqOfSet(get_responses(a)), LAMBDA r : r.selected_level # None)
    IN  IF compliance.exception # NoneStr
        THEN [exception |-> compliance.exception]
        ELSE IF \E i \in 1..Len(answered) : UploadedIdsRaises(answered[i])
        THEN [exception |-> "AttributeError"]
        ELSE [exception |-> NoneStr,
              maturity |-> maturity,
              compliance |-> compliance,
              question_details |-> [i \in 1..Len(answered) |-> QuestionDetailOf(answered[i])]]

(***************************************************************************)
(* Tables                                                                  *)
(***************************************************************************)
\* the assessments of the database
AssessmentIds == {"A1"}

\* the mapped columns of Assessment that the scoring and workflow code touches
AssessmentColumns == {"id", "status", "current_score", "completed_at"}

\* the levels a client sends in AssessmentResponseCreate.selected_level
SelectedLevels == {None} \cup Levels

\* the levels sent by the clients of the workflow specification
SomeLevels == {None, 0, 3, 4}

\* the questions answered by the clients of the workflow specification
SomeQuestions == {"DG.MQ.1", "DG.MQ.2", "DQ.MQ.1"}

\* select(Assessment).where(Assessment.id == assessment_id), scalar_one_or_none
AssessmentRows(a) == {row \in assessments : row.id = a}

\* the id of the n-th row stored for question q of assessment a
ResponseId(a, q, n) == <<a, q, n>>

\* uuid4 of a new AssessmentResponse: a value no other row carries
NewResponseId(a, q) ==
    ResponseId(a, q, Cardinality({r \in responses : r.assessment_id = a /\ r.question_id = q}))

\* uuid4 of a new Evidence row
NewEvidenceId == CHOOSE i \in 1..(Cardinality(evidence) + 1) : \A ev \in evidence : ev.id # i

\* what the driver does with a float bound to the INTEGER column current_score
Coercions == {"truncate", "reject"}

Reply(op, id, status, body) == [op |-> op, id |-> id, status |-> status, body |-> body]

NoReply == Reply("none", "", 0, [detail |-> ""])

\* the recalculations since the last change of the data: how many (2 stands for
\* two or more), the outcome of the first and the outcome of the latest
NoHist == [calls |-> 0, first |-> NoReply, last |-> NoReply]

NoScores == [maturity |-> [exception |-> "unset"], compliance |-> [exception |-> "unset"]]

NoCall == [name |-> "none", arg |-> Frac(0, 1), ret |-> None]

\* the requests served at the same time, each in a database session of its own
Workers == {"w1", "w2"}

Idle == [op |-> "idle"]

NoRequests == [w \in Workers |-> Idle]

\* the rows the cascade of the last delete_assessment removed
NoRemoved == [responses |-> {}, evidence |-> {}]

NotFound(op, id, what) == Reply(op, id, 404, [detail |-> what])

ServerError(op, id, what) == Reply(op, id, 500, [detail |-> what])

\* setattr on a loaded instance: any attribute name is accepted
SetAttr(obj, name, value) ==
    [f \in DOMAIN obj \cup {name} |-> IF f = name THEN value ELSE obj[f]]

\* the INTEGER column current_score keeps the whole part of a value in hundredths
IntegerColumn(x) == x \div 100

\* flush: the UPDATE writes the mapped columns of the instance and nothing else
Flush(instance) == [c \in AssessmentColumns |-> instance[c]]

\* a write-back that adds the new score to the cached one instead of replacing it
update_assessment_scores_adding(a) ==
    LET maturity == calculate_maturity_score(a)
        compliance == calculate_compliance_score(a)
        found == AssessmentRows(a)
    IN  IF compliance.exception # NoneStr
        THEN [exception |-> compliance.exception, rows |-> assessments,
              maturity |-> maturity, compliance |-> compliance]
        ELSE IF found = {}
        THEN [exception |-> NoneStr, rows |-> assessments,
              maturity |-> maturity, compliance |-> compliance]
        ELSE IF int_coercion = "reject"
        THEN [exception |-> "DataError", rows |-> assessments,
              maturity |-> maturity, compliance |-> compliance]
        ELSE LET assessment == CHOOSE row \in found : TRUE
                 old == IF assessment.current_score = None THEN 0 ELSE assessment.current_score
                 a3 == SetAttr(assessment, "current_score", old + IntegerColumn(maturity.overall_score))
             IN  [exception |-> NoneStr,
                  rows |-> (assessments \ {assessment}) \cup {Flush(a3)},
                  maturity |-> maturity, compliance |-> compliance]

\* a write-back whose UPDATE reaches every assessment row
WriteBackAll(a, maturity, compliance) ==
    IF AssessmentRows(a) = {} \/ int_coercion = "reject"
    THEN [exception |-> IF AssessmentRows(a) = {} THEN NoneStr ELSE "DataError",
          rows |-> assessments, maturity |-> maturity, compliance |-> compliance]
    ELSE [exception |-> NoneStr,
          rows |-> {Flush(SetAttr(row, "current_score", IntegerColumn(maturity.overall_score))) :
                       row \in assessments},
          maturity |-> maturity, compliance |-> compliance]

\* the tail of update_assessment_scores: the assessment is looked up again and,
\* when it is there, the computed scores are assigned and flushed
WriteBack(a, maturity, compliance) ==
    LET found == AssessmentRows(a)
    IN  IF found = {}
        THEN [exception |-> NoneStr, rows |-> assessments,
              maturity |-> maturity, compliance |-> compliance]
        ELSE IF int_coercion = "reject"
        THEN [exception |-> "DataError", rows |-> assessments,
              maturity |-> maturity, compliance |-> compliance]
        ELSE LET assessment == CHOOSE row \in found : TRUE
                 a1 == SetAttr(assessment, "maturity_score", maturity.overall_score)
                 a2 == SetAttr(a1, "compliance_score", compliance.compliance_percentage)
                 a3 == SetAttr(a2, "current_score", IntegerColumn(maturity.overall_score))
             IN  [exception |-> NoneStr,
                  rows |-> (assessments \ {assessment}) \cup {Flush(a3)},
                  maturity |-> maturity, compliance |-> compliance]

\* ScoreService.update_assessment_scores: the outcome and the rows after the flush
update_assessment_scores(a) ==
    LET maturity == calculate_maturity_score(a)
        compliance == calculate_compliance_score(a)
    IN  IF compliance.exception # NoneStr
        THEN [exception |-> compliance.exception, rows |-> assessments,
              maturity |-> maturity, compliance |-> compliance]
        ELSE WriteBack(a, maturity, compliance)

\* the AssessmentResponse schema built from a loaded row: the two score
\* fields the constructor is not given keep their default
AssessmentDetail(assessment) ==
    [id |-> assessment.id,
     status |-> assessment.status,
     current_score |-> assessment.current_score,
     maturity_score |-> None,
     compliance_score |-> None,
     completed_at |-> assessment.completed_at]

\* what a later GET /assessments/{id} returns of the cached scores
get_assessment(a) == AssessmentDetail(CHOOSE row \in AssessmentRows(a) : TRUE)

\* AssessmentUpdate.status: one of the four names, or not set
Statuses == {"draft", "in_progress", "completed", "archived"}

\* datetime.utcnow(): a timestamp, as opposed to NULL
utcnow == 1

\* the clock readings of two requests made at different times
Timestamps == {utcnow, utcnow + 1}

\* AssessmentService.calculate_score: avg(selected_level) over the answered
\* responses of the assessment, 0.0 when the average is NULL or zero
calculate_score(a) ==
    LET answered == {r \in get_responses(a) : r.selected_level # None}
    IN  IF answered = {} \/ SumLevels(answered) = 0 THEN Frac(0, 1)
        ELSE Frac(SumLevels(answered), Cardinality(answered))

(***************************************************************************)
(* Request handlers                                                        *)
(***************************************************************************)
\* POST /assessments/{assessment_id}/responses
create_or_update_response(a, q, lvl) ==
    /\ IF AssessmentRows(a) = {}
       THEN /\ reply' = NotFound("create_or_update_response", a, "Assessment not found")
            /\ UNCHANGED responses
       ELSE LET existing == {r \in responses : r.assessment_id = a /\ r.question_id = q}
            IN  IF Cardinality(existing) > 1
                THEN /\ reply' = ServerError("create_or_update_response", a, "MultipleResultsFound")
                     /\ UNCHANGED responses
                ELSE IF existing # {}
                THEN LET response == CHOOSE r \in existing : TRUE
                         updated == [response EXCEPT !.selected_level = lvl]
                     IN  /\ responses' = (responses \ {response}) \cup {updated}
                         /\ reply' = Reply("create_or_update_response", a, 200, updated)
                ELSE LET response == [id |-> NewResponseId(a, q), assessment_id |-> a,
                                      question_id |-> q, selected_level |-> lvl]
                     IN  /\ responses' = responses \cup {response}
                         /\ reply' = Reply("create_or_update_response", a, 200, response)
    /\ scores' = NoScores
    /\ hist' = NoHist
    /\ removed' = NoRemoved
    /\ UNCHANGED <<assessments, evidence, int_coercion, seed, ndi, inherits, fn, inflight>>

\* POST /evidence/upload
upload_evidence(response_id, file_ok) ==
    /\ Cardinality(evidence) < MaxEvidence
    /\ IF {r \in responses : r.id = response_id} = {}
       THEN /\ reply' = NotFound("upload_evidence", response_id, "Assessment response not found")
            /\ UNCHANGED evidence
       ELSE IF ~file_ok
       THEN /\ reply' = Reply("upload_evidence", response_id, 400, [detail |-> "File type not allowed"])
            /\ UNCHANGED evidence
       ELSE LET ev == [id |-> NewEvidenceId, response_id |-> response_id, analysis_status |-> "pending"]
            IN  /\ evidence' = evidence \cup {ev}
                /\ reply' = Reply("upload_evidence", response_id, 200, ev)
    /\ scores' = NoScores
    /\ hist' = NoHist
    /\ removed' = NoRemoved
    /\ UNCHANGED <<assessments, responses, int_coercion, seed, ndi, inherits, fn, inflight>>

\* DELETE /evidence/{evidence_id}
delete_evidence(evidence_id) ==
    /\ IF {ev \in evidence : ev.id = evidence_id} = {}
       THEN /\ reply' = NotFound("delete_evidence", evidence_id, "Evidence not found")
            /\ UNCHANGED evidence
       ELSE /\ evidence' = {ev \in evidence : ev.id # evidence_id}
            /\ reply' = Reply("delete_evidence", evidence_id, 204, [detail |-> ""])
    /\ scores' = NoScores
    /\ hist' = NoHist
    /\ removed' = NoRemoved
    /\ UNCHANGED <<assessments, responses, int_coercion, seed, ndi, inherits, fn, inflight>>

\* a delete of the assessment row alone, with no cascade
delete_assessment_row_only(a) ==
    /\ IF AssessmentRows(a) = {}
       THEN /\ reply' = NotFound("delete_assessment", a, "Assessment not found")
            /\ UNCHANGED assessments
       ELSE /\ assessments' = assessments \ AssessmentRows(a)
            /\ reply' = Reply("delete_assessment", a, 204, [detail |-> ""])
    /\ removed' = NoRemoved
    /\ scores' = NoScores
    /\ hist' = NoHist
    /\ UNCHANGED <<responses, evidence, int_coercion, seed, ndi, inherits, fn, inflight>>

\* DELETE /assessments/{assessment_id}: the delete cascades to responses and evidence
delete_assessment(a) ==
    /\ IF AssessmentRows(a) = {}
       THEN /\ reply' = NotFound("delete_assessment", a, "Assessment not found")
            /\ removed' = NoRemoved
            /\ UNCHANGED <<assessments, responses, evidence>>
       ELSE LET gone == {r \in responses : r.assessment_id = a}
            IN  /\ assessments' = assessments \ AssessmentRows(a)
                /\ responses' = responses \ gone
                /\ evidence' = {ev \in evidence : \A r \in gone : ev.response_id # r.id}
                /\ removed' = [responses |-> gone,
                               evidence |-> {ev \in evidence : \E r \in gone : ev.response_id = r.id}]
                /\ reply' = Reply("delete_assessment", a, 204, [detail |-> ""])
    /\ scores' = NoScores
    /\ hist' = NoHist
    /\ UNCHANGED <<int_coercion, seed, ndi, inherits, fn, inflight>>

\* an update that stamps completed_at whenever the status sent is completed
update_assessment_restamping(a, status, now) ==
    /\ IF AssessmentRows(a) = {}
       THEN /\ reply' = NotFound("update_assessment", a, "Assessment not found")
            /\ UNCHANGED assessments
       ELSE LET assessment == CHOOSE row \in AssessmentRows(a) : TRUE
                a1 == IF status # NoneStr THEN SetAttr(assessment, "status", status) ELSE assessment
                a2 == IF status = "completed"
                      THEN SetAttr(a1, "completed_at", now) ELSE a1
            IN  /\ assessments' = (assessments \ {assessment}) \cup {Flush(a2)}
                /\ reply' = Reply("update_assessment", a, 200, AssessmentDetail(Flush(a2)))
    /\ scores' = NoScores
    /\ hist' = NoHist
    /\ removed' = NoRemoved
    /\ UNCHANGED <<responses, evidence, int_coercion, seed, ndi, inherits, fn, inflight>>

\* PUT /assessments/{assessment_id}: every field the client set is assigned
update_assessment(a, status, now) ==
    /\ IF AssessmentRows(a) = {}
       THEN /\ reply' = NotFound("update_assessment", a, "Assessment not found")
            /\ UNCHANGED assessments
       ELSE LET assessment == CHOOSE row \in AssessmentRows(a) : TRUE
                a1 == IF status # NoneStr THEN SetAttr(assessment, "status", status) ELSE assessment
                a2 == IF status = "completed" /\ a1.completed_at = None
                      THEN SetAttr(a1, "completed_at", now) ELSE a1
            IN  /\ assessments' = (assessments \ {assessment}) \cup {Flush(a2)}
                /\ reply' = Reply("update_assessment", a, 200, AssessmentDetail(Flush(a2)))
    /\ scores' = NoScores
    /\ hist' = NoHist
    /\ removed' = NoRemoved
    /\ UNCHANGED <<responses, evidence, int_coercion, seed, ndi, inherits, fn, inflight>>

\* POST /assessments/{assessment_id}/submit
submit_assessment(a, now) ==
    /\ IF AssessmentRows(a) = {}
       THEN /\ reply' = NotFound("submit_assessment", a, "Assessment not found")
            /\ UNCHANGED assessments
       ELSE IF int_coercion = "reject"
       THEN /\ reply' = ServerError("submit_assessment", a, "DataError")
            /\ UNCHANGED assessments
       ELSE LET assessment == CHOOSE row \in AssessmentRows(a) : TRUE
                score == calculate_score(a)
                a1 == SetAttr(assessment, "status", "completed")
                a2 == SetAttr(a1, "completed_at", now)
                a3 == SetAttr(a2, "current_score", score.num \div score.den)
            IN  /\ assessments' = (assessments \ {assessment}) \cup {Flush(a3)}
                /\ reply' = Reply("submit_assessment", a, 200, AssessmentDetail(Flush(a3)))
    /\ scores' = NoScores
    /\ hist' = NoHist
    /\ removed' = NoRemoved
    /\ UNCHANGED <<responses, evidence, int_coercion, seed, ndi, inherits, fn, inflight>>

\* a read that also stores the score it computed
get_maturity_score_caching(a) ==
    /\ IF AssessmentRows(a) = {}
       THEN /\ reply' = NotFound("get_maturity_score", a, "Assessment not found")
            /\ UNCHANGED assessments
       ELSE /\ reply' = Reply("get_maturity_score", a, 200, calculate_maturity_score(a))
            /\ assessments' = WriteBack(a, calculate_maturity_score(a), NoScores.compliance).rows
    /\ scores' = NoScores
    /\ UNCHANGED <<responses, evidence, int_coercion, seed, ndi, inherits, fn, hist, inflight, removed>>

\* GET /assessments/{assessment_id}/maturity-score
get_maturity_score(a) ==
    /\ IF AssessmentRows(a) = {}
       THEN reply' = NotFound("get_maturity_score", a, "Assessment not found")
       ELSE reply' = Reply("get_maturity_score", a, 200, calculate_maturity_score(a))
    /\ scores' = NoScores
    /\ UNCHANGED <<assessments, responses, evidence, int_coercion, seed, ndi, inherits, fn, hist,
                   inflight, removed>>

\* GET /assessments/{assessment_id}/compliance-score
get_compliance_score(a) ==
    /\ IF AssessmentRows(a) = {}
       THEN reply' = NotFound("get_compliance_score", a, "Assessment not found")
       ELSE LET result == calculate_compliance_score(a)
            IN  IF result.exception # NoneStr
                THEN reply' = ServerError("get_compliance_score", a, result.exception)
                ELSE reply' = Reply("get_compliance_score", a, 200, result)
    /\ scores' = NoScores
    /\ UNCHANGED <<assessments, responses, evidence, int_coercion, seed, ndi, inherits, fn, hist,
                   inflight, removed>>

\* GET /assessments/{assessment_id}/combined
get_combined_assessment(a) ==
    /\ IF AssessmentRows(a) = {}
       THEN reply' = NotFound("get_combined_assessment", a, "Assessment not found")
       ELSE LET result == combined_assessment(a)
            IN  IF result.exception # NoneStr
                THEN reply' = ServerError("get_combined_assessment", a, result.exception)
                ELSE reply' = Reply("get_combined_assessment", a, 200, result)
    /\ scores' = NoScores
    /\ UNCHANGED <<assessments, responses, evidence, int_coercion, seed, ndi, inherits, fn, hist,
                   inflight, removed>>

\* GET /dashboard/stats: the assessment asked for, or the latest one
get_dashboard_stats(a) ==
    /\ LET found == IF a # NoneStr THEN AssessmentRows(a) ELSE assessments
       IN  IF found = {}
           THEN IF a # NoneStr
                THEN reply' = NotFound("get_dashboard_stats", a, "Assessment not found")
                ELSE reply' = Reply("get_dashboard_stats", a, 200, [assessment_status |-> "No Assessment"])
           ELSE LET assessment == CHOOSE row \in found : TRUE
                    maturity == calculate_maturity_score(assessment.id)
                    compliance == calculate_compliance_score(assessment.id)
                    rs == get_responses(assessment.id)
                IN  IF compliance.exception # NoneStr
                    THEN reply' = ServerError("get_dashboard_stats", a, compliance.exception)
                    ELSE reply' = Reply("get_dashboard_stats", a, 200,
                            [assessment_status |-> assessment.status,
                             maturity |-> maturity,
                             compliance |-> compliance,
                             answered_questions |-> Cardinality({r \in rs : r.selected_level # None}),
                             questions_with_evidence |-> Cardinality({r \in rs : ResponseEvidence(r) # {}})])
    /\ scores' = NoScores
    /\ UNCHANGED <<assessments, responses, evidence, int_coercion, seed, ndi, inherits, fn, hist,
                   inflight, removed>>

\* GET /reports/assessments/{assessment_id}/report, format json
generate_report(a) ==
    /\ IF AssessmentRows(a) = {}
       THEN reply' = NotFound("generate_report", a, "Assessment not found")
       ELSE LET assessment == CHOOSE row \in AssessmentRows(a) : TRUE
                maturity == calculate_maturity_score(a)
                compliance == calculate_compliance_score(a)
                rs == SeqOfSet(get_responses(a))
            IN  IF compliance.exception # NoneStr
                THEN reply' = ServerError("generate_report", a, compliance.exception)
                ELSE reply' = Reply("generate_report", a, 200,
                        [assessment |-> [id |-> assessment.id, status |-> assessment.status,
                                         completed_at |-> assessment.completed_at],
                         maturity |-> maturity,
                         compliance |-> compliance,
                         responses |-> [i \in 1..Len(rs) |->
                            [question_code |-> rs[i].question_id,
                             selected_level |-> rs[i].selected_level,
                             has_level_details |->
                                rs[i].selected_level # None
                                /\ MaturityLevel(rs[i].question_id, rs[i].selected_level) # {},
                             evidence_count |-> Cardinality(ResponseEvidence(rs[i]))]]])
    /\ scores' = NoScores
    /\ UNCHANGED <<assessments, responses, evidence, int_coercion, seed, ndi, inherits, fn, hist,
                   inflight, removed>>

\* the history after one more recalculation with the given outcome
Record(h, outcome) ==
    [calls |-> IF h.calls = 0 THEN 1 ELSE 2,
     first |-> IF h.calls = 0 THEN outcome ELSE h.first,
     last |-> outcome]

\* POST /assessments/{assessment_id}/recalculate
recalculate_scores(a) ==
    /\ IF AssessmentRows(a) = {}
       THEN /\ reply' = NotFound("recalculate_scores", a, "Assessment not found")
            /\ scores' = NoScores
            /\ UNCHANGED assessments
       ELSE LET done == update_assessment_scores(a)
            IN  /\ scores' = [maturity |-> done.maturity, compliance |-> done.compliance]
                /\ IF done.exception # NoneStr
                   THEN /\ reply' = ServerError("recalculate_scores", a, done.exception)
                        /\ UNCHANGED assessments
                   ELSE /\ reply' = Reply("recalculate_scores", a, 200,
                                           [status |-> "success", message |-> "Scores recalculated"])
                        /\ assessments' = done.rows
    /\ hist' = Record(hist, [reply |-> reply', scores |-> scores', cached |-> assessments'])
    /\ UNCHANGED <<responses, evidence, int_coercion, seed, ndi, inherits, fn, inflight, removed>>

(***************************************************************************)
(* Concurrent requests: every await on the database is a point where the   *)
(* other request may run; the commit of get_db follows the last flush of   *)
(* the handler at once.                                                    *)
(***************************************************************************)
\* the other requests in flight after a committed change of the data of
\* assessment a: a recalculation of a that has begun no longer runs over
\* unchanged data
AfterChange(w, a) ==
    [v \in Workers |->
        IF v = w THEN Idle
        ELSE IF inflight[v].op = "recalculate_scores" /\ inflight[v].a = a
        THEN [inflight[v] EXCEPT !.clean = FALSE]
        ELSE inflight[v]]

\* the request of worker w is over
Finished(w) == [inflight EXCEPT ![w] = Idle]

\* recalculate_scores up to its first await: the assessment is looked up
recalculate_begin(w, a) ==
    /\ inflight[w] = Idle
    /\ IF AssessmentRows(a) = {}
       THEN /\ reply' = NotFound("recalculate_scores", a, "Assessment not found")
            /\ UNCHANGED inflight
       ELSE /\ inflight' = [inflight EXCEPT ![w] =
                    [op |-> "recalculate_scores", a |-> a, pc |-> "maturity", clean |-> TRUE,
                     maturity |-> NoScores.maturity, compliance |-> NoScores.compliance]]
            /\ UNCHANGED reply
    /\ UNCHANGED <<assessments, responses, evidence, scores, int_coercion, seed, ndi, inherits, fn,
                   hist, removed>>

\* maturity = await self.calculate_maturity_score(assessment_id)
recalculate_maturity(w) ==
    /\ inflight[w].op = "recalculate_scores"
    /\ inflight[w].pc = "maturity"
    /\ inflight' = [inflight EXCEPT ![w].pc = "compliance",
                                    ![w].maturity = calculate_maturity_score(inflight[w].a)]
    /\ UNCHANGED <<assessments, responses, evidence, reply, scores, int_coercion, seed, ndi,
                   inherits, fn, hist, removed>>

\* the outcome of a recalculation that ran over unchanged data joins the history
RecordIf(clean, outcome) == IF clean THEN Record(hist, outcome) ELSE hist

\* compliance = await self.calculate_compliance_score(assessment_id)
recalculate_compliance(w) ==
    /\ inflight[w].op = "recalculate_scores"
    /\ inflight[w].pc = "compliance"
    /\ LET compliance == calculate_compliance_score(inflight[w].a)
       IN  IF compliance.exception # NoneStr
           THEN /\ reply' = ServerError("recalculate_scores", inflight[w].a, compliance.exception)
                /\ scores' = [maturity |-> inflight[w].maturity, compliance |-> compliance]
                /\ inflight' = Finished(w)
                /\ hist' = RecordIf(inflight[w].clean,
                                    [reply |-> reply', scores |-> scores', cached |-> assessments])
           ELSE /\ inflight' = [inflight EXCEPT ![w].pc = "write", ![w].compliance = compliance]
                /\ UNCHANGED <<reply, scores, hist>>
    /\ UNCHANGED <<assessments, responses, evidence, int_coercion, seed, ndi, inherits, fn, removed>>

\* a write-back that fails when the assessment is gone
recalculate_write_strict(w) ==
    /\ inflight[w].op = "recalculate_scores"
    /\ inflight[w].pc = "write"
    /\ LET done == WriteBack(inflight[w].a, inflight[w].maturity, inflight[w].compliance)
       IN  /\ scores' = [maturity |-> done.maturity, compliance |-> done.compliance]
           /\ IF AssessmentRows(inflight[w].a) = {}
              THEN /\ reply' = ServerError("recalculate_scores", inflight[w].a, "NoResultFound")
                   /\ UNCHANGED assessments
              ELSE IF done.exception # NoneStr
              THEN /\ reply' = ServerError("recalculate_scores", inflight[w].a, done.exception)
                   /\ UNCHANGED assessments
              ELSE /\ reply' = Reply("recalculate_scores", inflight[w].a, 200,
                                      [status |-> "success", message |-> "Scores recalculated"])
                   /\ assessments' = done.rows
    /\ inflight' = Finished(w)
    /\ hist' = RecordIf(inflight[w].clean,
                        [reply |-> reply', scores |-> scores', cached |-> assessments'])
    /\ UNCHANGED <<responses, evidence, int_coercion, seed, ndi, inherits, fn, removed>>

\* the second lookup of the assessment, the three assignments and the flush
recalculate_write(w) ==
    /\ inflight[w].op = "recalculate_scores"
    /\ inflight[w].pc = "write"
    /\ LET done == WriteBack(inflight[w].a, inflight[w].maturity, inflight[w].compliance)
       IN  /\ scores' = [maturity |-> done.maturity, compliance |-> done.compliance]
           /\ IF done.exception # NoneStr
              THEN /\ reply' = ServerError("recalculate_scores", inflight[w].a, done.exception)
                   /\ UNCHANGED assessments
              ELSE /\ reply' = Reply("recalculate_scores", inflight[w].a, 200,
                                      [status |-> "success", message |-> "Scores recalculated"])
                   /\ assessments' = done.rows
    /\ inflight' = Finished(w)
    /\ hist' = RecordIf(inflight[w].clean,
                        [reply |-> reply', scores |-> scores', cached |-> assessments'])
    /\ UNCHANGED <<responses, evidence, int_coercion, seed, ndi, inherits, fn, removed>>

\* create_or_update_response up to its first await: the assessment is looked up
upsert_begin(w, a, q, lvl) ==
    /\ inflight[w] = Idle
    /\ IF AssessmentRows(a) = {}
       THEN /\ reply' = NotFound("create_or_update_response", a, "Assessment not found")
            /\ UNCHANGED inflight
       ELSE /\ inflight' = [inflight EXCEPT ![w] =
                    [op |-> "create_or_update_response", a |-> a, q |-> q, lvl |-> lvl,
                     pc |-> "select", existing |-> {}]]
            /\ UNCHANGED reply
    /\ UNCHANGED <<assessments, responses, evidence, scores, int_coercion, seed, ndi, inherits, fn,
                   hist, removed>>

\* the select of the existing response and scalar_one_or_none
upsert_select(w) ==
    /\ inflight[w].op = "create_or_update_response"
    /\ inflight[w].pc = "select"
    /\ LET existing == {r \in responses : r.assessment_id = inflight[w].a
                                          /\ r.question_id = inflight[w].q}
       IN  IF Cardinality(existing) > 1
           THEN /\ reply' = ServerError("create_or_update_response", inflight[w].a, "MultipleResultsFound")
                /\ inflight' = Finished(w)
           ELSE /\ inflight' = [inflight EXCEPT ![w].pc = "write",
                                               ![w].existing = {r.id : r \in existing}]
                /\ UNCHANGED reply
    /\ UNCHANGED <<assessments, responses, evidence, scores, int_coercion, seed, ndi, inherits, fn,
                   hist, removed>>

\* the branch on the row that was found, then flush: an UPDATE of that row,
\* or an INSERT of a new one
upsert_write(w) ==
    /\ inflight[w].op = "create_or_update_response"
    /\ inflight[w].pc = "write"
    /\ IF inflight[w].existing # {} /\ {r \in responses : r.id \in inflight[w].existing} = {}
       THEN /\ reply' = ServerError("create_or_update_response", inflight[w].a, "StaleDataError")
            /\ UNCHANGED responses
       ELSE IF inflight[w].existing # {}
       THEN LET response == CHOOSE r \in responses : r.id \in inflight[w].existing
                updated == [response EXCEPT !.selected_level = inflight[w].lvl]
            IN  /\ responses' = (responses \ {response}) \cup {updated}
                /\ reply' = Reply("create_or_update_response", inflight[w].a, 200, updated)
       ELSE IF AssessmentRows(inflight[w].a) = {}
       THEN /\ reply' = ServerError("create_or_update_response", inflight[w].a, "IntegrityError")
            /\ UNCHANGED responses
       ELSE LET response == [id |-> NewResponseId(inflight[w].a, inflight[w].q),
                             assessment_id |-> inflight[w].a,
                             question_id |-> inflight[w].q, selected_level |-> inflight[w].lvl]
            IN  /\ responses' = responses \cup {response}
                /\ reply' = Reply("create_or_update_response", inflight[w].a, 200, response)
    /\ inflight' = AfterChange(w, inflight[w].a)
    /\ scores' = NoScores
    /\ hist' = NoHist
    /\ removed' = NoRemoved
    /\ UNCHANGED <<assessments, evidence, int_coercion, seed, ndi, inherits, fn>>

\* delete_assessment served by worker w while other requests are in flight
delete_assessment_by(w, a) ==
    /\ inflight[w] = Idle
    /\ IF AssessmentRows(a) = {}
       THEN /\ reply' = NotFound("delete_assessment", a, "Assessment not found")
            /\ removed' = NoRemoved
            /\ UNCHANGED <<assessments, responses, evidence>>
       ELSE LET gone == {r \in responses : r.assessment_id = a}
            IN  /\ assessments' = assessments \ AssessmentRows(a)
                /\ responses' = responses \ gone
                /\ evidence' = {ev \in evidence : \A r \in gone : ev.response_id # r.id}
                /\ removed' = [responses |-> gone,
                               evidence |-> {ev \in evidence : \E r \in gone : ev.response_id = r.id}]
                /\ reply' = Reply("delete_assessment", a, 204, [detail |-> ""])
    /\ inflight' = AfterChange(w, a)
    /\ scores' = NoScores
    /\ hist' = NoHist
    /\ UNCHANGED <<int_coercion, seed, ndi, inherits, fn>>

\* upload_evidence served by worker w while other requests are in flight
upload_evidence_by(w, response_id) ==
    /\ inflight[w] = Idle
    /\ Cardinality(evidence) < MaxEvidence
    /\ LET found == {r \in responses : r.id = response_id}
       IN  IF found = {}
           THEN /\ reply' = NotFound("upload_evidence", response_id, "Assessment response not found")
                /\ UNCHANGED <<evidence, inflight>>
           ELSE LET ev == [id |-> NewEvidenceId, response_id |-> response_id, analysis_status |-> "pending"]
                IN  /\ evidence' = evidence \cup {ev}
                    /\ reply' = Reply("upload_evidence", response_id, 200, ev)
                    /\ inflight' = AfterChange(w, (CHOOSE r \in found : TRUE).assessment_id)
    /\ scores' = NoScores
    /\ hist' = NoHist
    /\ removed' = NoRemoved
    /\ UNCHANGED <<assessments, responses, int_coercion, seed, ndi, inherits, fn>>

\* one call of _get_level_from_score
ApplyLevel ==
    /\ fn.name = "_get_level_from_score"
    /\ fn.ret = None
    /\ fn' = [fn EXCEPT !.ret = get_level_from_score(fn.arg)]
    /\ UNCHANGED <<assessments, responses, evidence, reply, scores, int_coercion, seed, ndi,
                   inherits, hist, inflight, removed>>

\* one call of assessment_service.score_to_level
ApplyScoreToLevel ==
    /\ fn.name = "score_to_level"
    /\ fn.ret = None
    /\ fn' = [fn EXCEPT !.ret = score_to_level(fn.arg)]
    /\ UNCHANGED <<assessments, responses, evidence, reply, scores, int_coercion, seed, ndi,
                   inherits, hist, inflight, removed>>

(***************************************************************************)
(* Specifications                                                          *)
(***************************************************************************)
NewAssessment(a) == [id |-> a, status |-> "draft", current_score |-> None, completed_at |-> None]

\* the workflow: the assessments exist, nothing is answered yet
Init ==
    /\ seed = "main-data"
    /\ inherits = "seeded"
    /\ ndi = SeedData(seed, inherits)
    /\ assessments = {NewAssessment(a) : a \in AssessmentIds}
    /\ responses = {}
    /\ evidence = {}
    /\ reply = NoReply
    /\ scores = NoScores
    /\ int_coercion \in Coercions
    /\ fn = NoCall
    /\ hist = NoHist
    /\ inflight = NoRequests
    /\ removed = NoRemoved

Next ==
    \/ \E a \in AssessmentIds, q \in SomeQuestions, lvl \in SomeLevels : create_or_update_response(a, q, lvl)
    \/ \E a \in AssessmentIds, q \in SomeQuestions, ok \in BOOLEAN : upload_evidence(ResponseId(a, q, 0), ok)
    \/ \E e \in 1..MaxEvidence : delete_evidence(e)
    \/ \E a \in AssessmentIds : delete_assessment(a)
    \/ \E a \in AssessmentIds : get_maturity_score(a)
    \/ \E a \in AssessmentIds : get_compliance_score(a)
    \/ \E a \in AssessmentIds : recalculate_scores(a)

Spec == Init /\ [][Next]_vars

\* the response rows of one assessment that answer the questions of f
ResponseRows(a, f) ==
    {[id |-> ResponseId(a, q, 0), assessment_id |-> a, question_id |-> q, selected_level |-> f[q]] :
        q \in DOMAIN f}

\* k evidence rows, row i uploaded for response g[i]
EvidenceRows(g) ==
    {[id |-> i, response_id |-> g[i], analysis_status |-> "pending"] : i \in DOMAIN g}

\* the scoring engine over every assessment the workflow can build
InitScore ==
    /\ seed = "main-data"
    /\ inherits = "seeded"
    /\ ndi = SeedData(seed, inherits)
    /\ assessments = {NewAssessment(a) : a \in AssessmentIds}
    /\ responses \in UNION {{ResponseRows("A1", f) : f \in [qs -> SelectedLevels]} : qs \in SUBSET Questions}
    /\ evidence \in UNION {{EvidenceRows(g) : g \in [1..k -> {r.id : r \in responses}]} : k \in 0..MaxEvidence}
    /\ reply = NoReply
    /\ scores = NoScores
    /\ int_coercion = "truncate"
    /\ fn = NoCall
    /\ hist = NoHist
    /\ inflight = NoRequests
    /\ removed = NoRemoved

NextScore ==
    \/ \E a \in AssessmentIds : get_maturity_score(a)
    \/ \E a \in AssessmentIds : get_compliance_score(a)
    \/ \E a \in AssessmentIds : get_combined_assessment(a)

SpecScore == InitScore /\ [][NextScore]_vars

\* the cached scores between recalculations: answers, recalculation and
\* every operation that reads the scores
NextCache ==
    \/ \E a \in AssessmentIds, q \in SomeQuestions, lvl \in SomeLevels : create_or_update_response(a, q, lvl)
    \/ \E a \in AssessmentIds : recalculate_scores(a)
    \/ \E a \in AssessmentIds : get_maturity_score(a)
    \/ \E a \in AssessmentIds : get_compliance_score(a)
    \/ \E a \in AssessmentIds : get_combined_assessment(a)
    \/ \E a \in AssessmentIds \cup {NoneStr} : get_dashboard_stats(a)
    \/ \E a \in AssessmentIds : generate_report(a)

SpecCache == Init /\ [][NextCache]_vars

\* the assessments of the lifecycle specification
WorkflowIds == {"A1", "A2"}

\* what the clients of the lifecycle specification send
WorkflowQuestions == {"DG.MQ.1"}

WorkflowLevels == {3, 4}

InitWorkflow ==
    /\ seed = "main-data"
    /\ inherits = "seeded"
    /\ ndi = SeedData(seed, inherits)
    /\ assessments = {NewAssessment(a) : a \in WorkflowIds}
    /\ responses = {}
    /\ evidence = {}
    /\ reply = NoReply
    /\ scores = NoScores
    /\ int_coercion \in Coercions
    /\ fn = NoCall
    /\ hist = NoHist
    /\ inflight = NoRequests
    /\ removed = NoRemoved

\* the lifecycle of the assessments: answers, status updates, submission, scoring
NextWorkflow ==
    \/ \E a \in WorkflowIds, q \in WorkflowQuestions, lvl \in WorkflowLevels :
          create_or_update_response(a, q, lvl)
    \/ \E a \in WorkflowIds, status \in Statuses \cup {NoneStr} : update_assessment(a, status, utcnow)
    \/ \E a \in WorkflowIds : submit_assessment(a, utcnow)
    \/ \E a \in WorkflowIds : recalculate_scores(a)

SpecWorkflow == InitWorkflow /\ [][NextWorkflow]_vars

\* the questions and levels the concurrent clients send
ConcQuestions == {"DG.MQ.1"}

ConcLevels == {3, 4}

\* two requests at a time against the assessments of the workflow
NextConc ==
    \/ \E w \in Workers, a \in AssessmentIds : recalculate_begin(w, a)
    \/ \E w \in Workers : recalculate_maturity(w)
    \/ \E w \in Workers : recalculate_compliance(w)
    \/ \E w \in Workers : recalculate_write(w)
    \/ \E w \in Workers, a \in AssessmentIds, q \in ConcQuestions, lvl \in ConcLevels :
          upsert_begin(w, a, q, lvl)
    \/ \E w \in Workers : upsert_select(w)
    \/ \E w \in Workers : upsert_write(w)
    \/ \E w \in Workers, a \in AssessmentIds : delete_assessment_by(w, a)

SpecConc == Init /\ [][NextConc]_vars

\* the assessment each of the two concurrent clients works on
ClientAssessment == [w \in Workers |-> IF w = "w1" THEN "A1" ELSE "A2"]

\* scoring one assessment while the other one is answered, given files,
\* scored and deleted
NextIsolation ==
    \/ \E w \in Workers : recalculate_begin(w, ClientAssessment[w])
    \/ \E w \in Workers : recalculate_maturity(w)
    \/ \E w \in Workers : recalculate_compliance(w)
    \/ \E w \in Workers : recalculate_write(w)
    \/ \E w \in Workers, q \in ConcQuestions, lvl \in ConcLevels :
          upsert_begin(w, ClientAssessment[w], q, lvl)
    \/ \E w \in Workers : upsert_select(w)
    \/ \E w \in Workers : upsert_write(w)
    \/ \E w \in Workers, q \in ConcQuestions :
          upload_evidence_by(w, ResponseId(ClientAssessment[w], q, 0))
    \/ \E w \in Workers : delete_assessment_by(w, ClientAssessment[w])

SpecIsolation == InitWorkflow /\ [][NextIsolation]_vars

\* the inherits_from_level column of the acceptance evidence rows comes to hold
\* the values of v (the migration adds the column, NULL in every row, to a
\* populated table; the seed data fill it); no other column or table changes
set_inherits_from_level(v) ==
    /\ v # inherits
    /\ inherits' = v
    /\ ndi' = SeedData(seed, v)
    /\ UNCHANGED <<assessments, responses, evidence, reply, scores, int_coercion, seed, fn, hist,
                   inflight, removed>>

TaxonomyQuestions == {"DG.MQ.1", "DQ.MQ.1"}

\* the compliance engine over taxonomies that differ in inherits_from_level only
InitTaxonomy ==
    /\ seed = "main-data"
    /\ inherits = "seeded"
    /\ ndi = SeedData(seed, inherits)
    /\ assessments = {NewAssessment(a) : a \in AssessmentIds}
    /\ responses \in UNION {{ResponseRows("A1", f) : f \in [qs -> SelectedLevels]} :
                              qs \in SUBSET TaxonomyQuestions}
    /\ evidence \in UNION {{EvidenceRows(g) : g \in [1..k -> {r.id : r \in responses}]} :
                             k \in 0..MaxEvidence}
    /\ reply = NoReply
    /\ scores = NoScores
    /\ int_coercion = "truncate"
    /\ fn = NoCall
    /\ hist = NoHist
    /\ inflight = NoRequests
    /\ removed = NoRemoved

NextTaxonomy ==
    \/ \E v \in Inheritances : set_inherits_from_level(v)
    \/ \E a \in AssessmentIds : get_compliance_score(a)

SpecTaxonomy == InitTaxonomy /\ [][NextTaxonomy]_vars

SeedQuestions == {"DG.MQ.1", "DG.MQ.2", "DQ.MQ.1"}

\* the scoring engine over the taxonomies of Seeds; a response refers to a
\* question of the taxonomy (foreign key), so an empty taxonomy has none
InitSeed ==
    /\ seed \in Seeds
    /\ inherits = "seeded"
    /\ ndi = SeedData(seed, inherits)
    /\ assessments = {NewAssessment(a) : a \in AssessmentIds}
    /\ responses \in UNION {{ResponseRows("A1", f) : f \in [qs -> SelectedLevels]} :
                              qs \in SUBSET (Questions \cap SeedQuestions)}
    /\ evidence \in UNION {{EvidenceRows(g) : g \in [1..k -> {r.id : r \in responses}]} :
                             k \in 0..MaxEvidence}
    /\ reply = NoReply
    /\ scores = NoScores
    /\ int_coercion = "truncate"
    /\ fn = NoCall
    /\ hist = NoHist
    /\ inflight = NoRequests
    /\ removed = NoRemoved

NextSeed ==
    \/ \E a \in AssessmentIds : get_maturity_score(a)
    \/ \E a \in AssessmentIds : get_compliance_score(a)

SpecSeed == InitSeed /\ [][NextSeed]_vars

\* an answered assessment is submitted and recalculated, in any order
InitSubmit ==
    /\ seed = "main-data"
    /\ inherits = "seeded"
    /\ ndi = SeedData(seed, inherits)
    /\ assessments = {NewAssessment(a) : a \in AssessmentIds}
    /\ responses \in UNION {{ResponseRows("A1", f) : f \in [qs -> SelectedLevels]} :
                              qs \in SUBSET SeedQuestions}
    /\ evidence = {}
    /\ reply = NoReply
    /\ scores = NoScores
    /\ int_coercion \in Coercions
    /\ fn = NoCall
    /\ hist = NoHist
    /\ inflight = NoRequests
    /\ removed = NoRemoved

NextSubmit ==
    \/ \E a \in AssessmentIds : submit_assessment(a, utcnow)
    \/ \E a \in AssessmentIds : recalculate_scores(a)

SpecSubmit == InitSubmit /\ [][NextSubmit]_vars

\* the life cycle of one assessment, with requests at two different times
NextCompletion ==
    \/ \E a \in AssessmentIds, q \in WorkflowQuestions, lvl \in WorkflowLevels :
          create_or_update_response(a, q, lvl)
    \/ \E a \in AssessmentIds, status \in Statuses \cup {NoneStr}, now \in Timestamps :
          update_assessment(a, status, now)
    \/ \E a \in AssessmentIds, now \in Timestamps : submit_assessment(a, now)

SpecCompletion == Init /\ [][NextCompletion]_vars

RoundingLevels == {4, 5}

\* every question of the three-domain taxonomy is answered, at level 4 or 5
InitRounding ==
    /\ seed = "three_domains"
    /\ inherits = "seeded"
    /\ ndi = SeedData(seed, inherits)
    /\ assessments = {NewAssessment(a) : a \in AssessmentIds}
    /\ responses \in {ResponseRows("A1", f) : f \in [Questions -> RoundingLevels]}
    /\ evidence = {}
    /\ reply = NoReply
    /\ scores = NoScores
    /\ int_coercion = "truncate"
    /\ fn = NoCall
    /\ hist = NoHist
    /\ inflight = NoRequests
    /\ removed = NoRemoved

NextRounding == \E a \in AssessmentIds : get_maturity_score(a)

SpecRounding == InitRounding /\ [][NextRounding]_vars

\* the scores the level function is asked about: every mean of up to MaxAnswers levels
LevelInputs == {Frac(s, n) : s \in 0..(5 * MaxAnswers), n \in 1..MaxAnswers}

InitLevel ==
    /\ seed = "main-data"
    /\ inherits = "seeded"
    /\ ndi = SeedData(seed, inherits)
    /\ assessments = {}
    /\ responses = {}
    /\ evidence = {}
    /\ reply = NoReply
    /\ scores = NoScores
    /\ int_coercion = "truncate"
    /\ fn \in {[name |-> f, arg |-> x, ret |-> None] :
                 f \in {"_get_level_from_score", "score_to_level"},
                 x \in {y \in LevelInputs : y.num <= 5 * y.den}}
    /\ hist = NoHist
    /\ inflight = NoRequests
    /\ removed = NoRemoved

NextLevel ==
    \/ ApplyLevel
    \/ ApplyScoreToLevel

SpecLevel == InitLevel /\ [][NextLevel]_vars

\* one call of routers/assessments.score_to_level
ApplyRoutersScoreToLevel ==
    /\ fn.name = "routers.score_to_level"
    /\ fn.ret = None
    /\ fn' = [fn EXCEPT !.ret = routers_score_to_level(fn.arg)]
    /\ UNCHANGED <<assessments, responses, evidence, reply, scores, int_coercion, seed, ndi,
                   inherits, hist, inflight, removed>>

\* any float can be passed: the scores below 0 and above 5 as well
AnyScores == {Frac(s, n) : s \in (0 - MaxAnswers)..(6 * MaxAnswers), n \in 1..MaxAnswers}

LevelFunctions == {"_get_level_from_score", "score_to_level", "routers.score_to_level"}

InitAnyScore ==
    /\ seed = "main-data"
    /\ inherits = "seeded"
    /\ ndi = SeedData(seed, inherits)
    /\ assessments = {}
    /\ responses = {}
    /\ evidence = {}
    /\ reply = NoReply
    /\ scores = NoScores
    /\ int_coercion = "truncate"
    /\ fn \in {[name |-> f, arg |-> x, ret |-> None] : f \in LevelFunctions, x \in AnyScores}
    /\ hist = NoHist
    /\ inflight = NoRequests
    /\ removed = NoRemoved

NextAnyScore ==
    \/ ApplyLevel
    \/ ApplyScoreToLevel
    \/ ApplyRoutersScoreToLevel

SpecAnyScore == InitAnyScore /\ [][NextAnyScore]_vars

(***************************************************************************)
(* Properties                                                              *)
(***************************************************************************)
\* x lies in the half-open interval [lo, hi)
Within(x, lo, hi) == ~FracLess(x, lo) /\ FracLess(x, hi)

\* round(s) of Python: the nearest integer, ties to even
PyRound(x) == RoundHalfEven(x.num, x.den)

\* C1: for every score in [0,5] the level function returns 0 on [0,0.25),
\* 1 on [0.25,1.25), 2 on [1.25,2.5), 3 on [2.5,4), 4 on [4,4.75) and 5 on
\* [4.75,5]; a score at a lower bound belongs to the higher bucket, and the
\* function is not round(s): some score in range gets a level other than round(s).
C1_LevelTable ==
    /\ fn.ret # None =>
         /\ (fn.ret = 0) = Within(fn.arg, Frac(0, 1), Frac(25, 100))
         /\ (fn.ret = 1) = Within(fn.arg, Frac(25, 100), Frac(125, 100))
         /\ (fn.ret = 2) = Within(fn.arg, Frac(125, 100), Frac(250, 100))
         /\ (fn.ret = 3) = Within(fn.arg, Frac(250, 100), Frac(400, 100))
         /\ (fn.ret = 4) = Within(fn.arg, Frac(400, 100), Frac(475, 100))
         /\ (fn.ret = 5) = (~FracLess(fn.arg, Frac(475, 100)) /\ ~FracLess(Frac(5, 1), fn.arg))
    /\ \E x \in LevelInputs : x.num <= 5 * x.den /\ get_level_from_score(x) # PyRound(x)

\* the mean 4.0 of the levels 3 and 5 was given level 4
C1_Witness == fn.arg = Frac(8, 2) /\ fn.ret = 4

\* the answered responses of assessment a in domain d, read off the table
Answered(a, d) ==
    {r \in responses : r.assessment_id = a /\ r.question_id \in DomainQuestions(d)
                       /\ r.selected_level \in Levels}

\* the sum of the selected levels of a set of answered responses
LevelTotal(rs) ==
    1 * Cardinality({r \in rs : r.selected_level = 1}) + 2 * Cardinality({r \in rs : r.selected_level = 2})
    + 3 * Cardinality({r \in rs : r.selected_level = 3}) + 4 * Cardinality({r \in rs : r.selected_level = 4})
    + 5 * Cardinality({r \in rs : r.selected_level = 5})

Abs(n) == IF n < 0 THEN -n ELSE n

\* h hundredths is the fraction n/d rounded to two decimals
IsRounded2(h, n, d) == 2 * Abs(100 * n - h * d) <= d

MaturityReply == reply.op = "get_maturity_score" /\ reply.status = 200

\* C2: the score of a domain with at least one answered question is the mean
\* of selected_level over exactly the answered responses of the assessment in
\* that domain; unanswered questions are left out of the mean.
C2_DomainMean ==
    MaturityReply =>
        \A i \in 1..Len(Domains) :
            LET A == Answered(reply.id, Domains[i])
                ds == reply.body.domain_scores[i]
            IN  A # {} =>
                  /\ ds.domain_code = Domains[i]
                  /\ ds.answered_count = Cardinality(A)
                  /\ IsRounded2(ds.score, LevelTotal(A), Cardinality(A))

\* two of the three questions of DG answered, with 2 and 4: the score is 3.0
C2_Witness ==
    /\ MaturityReply
    /\ {r.selected_level : r \in Answered(reply.id, "DG")} = {2, 4}
    /\ Cardinality(Answered(reply.id, "DG")) = 2
    /\ reply.body.domain_scores[1].total_questions = 3
    /\ reply.body.domain_scores[1].score = 300

\* C3: a domain with no answered question is still listed in domain_scores,
\* with score 0.0, level 0, answered_count 0 and percentage 0.
C3_UnansweredDomain ==
    MaturityReply =>
        /\ Len(reply.body.domain_scores) = Len(Domains)
        /\ \A i \in 1..Len(Domains) :
              Answered(reply.id, Domains[i]) = {} =>
                  LET ds == reply.body.domain_scores[i]
                  IN  /\ ds.domain_code = Domains[i]
                      /\ ds.score = 0
                      /\ ds.level = 0
                      /\ ds.answered_count = 0
                      /\ ds.percentage = 0

\* DQ has no answer while DG has one
C3_Witness ==
    /\ MaturityReply
    /\ Answered(reply.id, "DQ") = {}
    /\ Answered(reply.id, "DG") # {}
    /\ reply.body.domain_scores[2].level = 0

\* the domains of the taxonomy with an answered question
AnsweredDomains(a) == {d \in {Domains[i] : i \in 1..Len(Domains)} : Answered(a, d) # {}}

RECURSIVE CountProduct(_, _)
\* the product of the numbers of answers of a set of domains
CountProduct(a, ds) ==
    IF ds = {} THEN 1
    ELSE LET d == CHOOSE x \in ds : TRUE
         IN  Cardinality(Answered(a, d)) * CountProduct(a, ds \ {d})

RECURSIVE MeanTotal(_, _, _)
\* the sum of the domain means of ds, as a multiple of 1 / CountProduct(a, all)
MeanTotal(a, ds, all) ==
    IF ds = {} THEN 0
    ELSE LET d == CHOOSE x \in ds : TRUE
         IN  LevelTotal(Answered(a, d)) * CountProduct(a, all \ {d}) + MeanTotal(a, ds \ {d}, all)

ComplianceCall == reply.op = "get_compliance_score" /\ reply.status # 404

ComplianceReply == reply.op = "get_compliance_score" /\ reply.status = 200

\* the ordinals that the uploaded Evidence records of a response refer to
ReferencedOrdinals(r) ==
    {ev.evidence_id : ev \in {e \in ResponseEvidence(r) : HasAttr(e, "evidence_id")}}

\* the status records the responses of assessment a call for: one per tagged
\* item of each selected level, compliant iff its ordinal is referenced
ExpectedStatuses(a) ==
    UNION {{[specification_code |-> LevelEvidence(r)[k].specification_code,
             question_code |-> r.question_id,
             evidence_id |-> LevelEvidence(r)[k].evidence_id,
             status |-> IF LevelEvidence(r)[k].evidence_id \in ReferencedOrdinals(r)
                        THEN "compliant" ELSE "non_compliant",
             has_evidence |-> LevelEvidence(r)[k].evidence_id \in ReferencedOrdinals(r)] :
            k \in {j \in 1..Len(LevelEvidence(r)) : Tagged(LevelEvidence(r)[j])}} :
           r \in {x \in responses : x.assessment_id = a /\ x.selected_level \in Levels}}

\* C5: for every answered response the compliance engine emits exactly one
\* status record per specification-tagged item of the selected level, compliant
\* with has_evidence true iff the item's evidence_id is among the ordinals of
\* the response's uploaded Evidence records, else non_compliant; no other status.
C5_StatusRecords ==
    ComplianceCall =>
        /\ reply.status = 200
        /\ LET detail == reply.body.specifications_detail
           IN  /\ {detail[i] : i \in 1..Len(detail)} = ExpectedStatuses(reply.id)
               /\ Len(detail) = Cardinality(ExpectedStatuses(reply.id))
               /\ \A i \in 1..Len(detail) : detail[i].status \in {"compliant", "non_compliant"}

\* C6: every returned ComplianceScoreResult has total_specifications =
\* compliant_count + non_compliant_count, partial_count = 0 and
\* total_specifications = the number of entries of specifications_detail.
C6_Counts ==
    ComplianceReply =>
        /\ reply.body.total_specifications = reply.body.compliant_count + reply.body.non_compliant_count
        /\ reply.body.partial_count = 0
        /\ reply.body.total_specifications = Len(reply.body.specifications_detail)

\* a result over the three tagged items of level 3 of DG.MQ.1 and one more item
C6_Witness ==
    /\ ComplianceReply
    /\ reply.body.total_specifications = 4
    /\ reply.body.non_compliant_count = 4

\* t tenths is the fraction n/d rounded to one decimal
IsRounded1(t, n, d) == 2 * Abs(10 * n - t * d) <= d

\* the tagged items of the selected levels whose ordinal has uploaded evidence
CoveredItems(a) == {st \in ExpectedStatuses(a) : st.has_evidence}

\* C7: compliance_percentage is compliant_count / total_specifications * 100
\* rounded to one decimal, 0 when the total is 0, where compliant_count counts
\* the tagged items that have uploaded evidence (2 of 3 gives 66.7).
C7_Percentage ==
    ComplianceCall =>
        /\ reply.status = 200
        /\ reply.body.compliant_count = Cardinality(CoveredItems(reply.id))
        /\ IF reply.body.total_specifications = 0
           THEN reply.body.compliance_percentage = 0
           ELSE IsRounded1(reply.body.compliance_percentage, 100 * reply.body.compliant_count,
                           reply.body.total_specifications)

\* C8: is_compliant is true iff compliant_count = total_specifications and
\* total_specifications > 0; an assessment with no tagged acceptance evidence
\* at any selected level yields total 0, percentage 0 and is_compliant false.
C8_IsCompliant ==
    ComplianceCall =>
        /\ reply.status = 200 =>
             reply.body.is_compliant =
                (reply.body.compliant_count = reply.body.total_specifications
                 /\ reply.body.total_specifications > 0)
        /\ ExpectedStatuses(reply.id) = {} =>
             /\ reply.status = 200
             /\ reply.body.total_specifications = 0
             /\ reply.body.compliance_percentage = 0
             /\ reply.body.is_compliant = FALSE

\* C9: after recalculate completes for an existing assessment, a later read of
\* the assessment returns current_score and maturity_score equal to the overall
\* maturity score and compliance_score equal to the compliance percentage.
C9_Persisted ==
    reply.op = "recalculate_scores" /\ reply.status = 200 =>
        LET later == get_assessment(reply.id)
        IN  /\ 100 * later.current_score = scores.maturity.overall_score
            /\ later.maturity_score = scores.maturity.overall_score
            /\ later.compliance_score = scores.compliance.compliance_percentage

\* C10: recalculating twice with no change of responses, evidence or taxonomy
\* in between gives the same maturity and compliance results and leaves the
\* cached score fields as the first call left them.
C10_Idempotent == hist.calls = 2 => hist.last = hist.first

\* a second recalculation of an answered assessment has succeeded
C10_Witness ==
    /\ hist.calls = 2
    /\ hist.last.reply.status = 200
    /\ hist.last.scores.maturity.overall_score = 350
    /\ \E row \in assessments : row.current_score = 3

\* no recalculation is in flight
NoRecalculation == \A w \in Workers : inflight[w].op # "recalculate_scores"

\* the cached score fields of assessment a, as a later read returns them,
\* equal the scores its responses and evidence yield now
CachedIsLive(a) ==
    LET later == get_assessment(a)
        maturity == calculate_maturity_score(a)
        compliance == calculate_compliance_score(a)
    IN  /\ compliance.exception = NoneStr
        /\ 100 * later.current_score = maturity.overall_score
        /\ later.maturity_score = maturity.overall_score
        /\ later.compliance_score = compliance.compliance_percentage

\* C11: when two or more recalculations of one assessment, interleaved in any
\* way, have all finished and no response or evidence changed meanwhile, the
\* cached score fields equal the scores the unchanged data yield.
C11_ConcurrentRecalculate ==
    NoRecalculation /\ hist.calls = 2 =>
        \A a \in AssessmentIds : AssessmentRows(a) # {} => CachedIsLive(a)

\* C12: in every reachable state, those reached by interleaved
\* create_or_update_response requests included, there is at most one
\* AssessmentResponse row per (assessment_id, question_id).
C12_OneResponsePerQuestion ==
    \A r1, r2 \in responses :
        r1.assessment_id = r2.assessment_id /\ r1.question_id = r2.question_id => r1 = r2

\* the place of a status in draft, in_progress, completed, archived
StatusRank(status) ==
    IF status = "draft" THEN 0
    ELSE IF status = "in_progress" THEN 1
    ELSE IF status = "completed" THEN 2
    ELSE 3

\* C13: the status of an assessment only moves forward along draft,
\* in_progress, completed, archived: no update_assessment or submit_assessment
\* step moves it to an earlier status, and none returns it to draft.
C13_StatusForward ==
    [][\A old \in assessments : \A new \in assessments' :
          old.id = new.id => StatusRank(new.status) >= StatusRank(old.status)]_vars

\* C14: deleting an assessment removes all its responses and all their
\* evidence; in every reachable state each response references an existing
\* assessment and each evidence record references an existing response.
C14_Cascade ==
    /\ \A r \in responses : AssessmentRows(r.assessment_id) # {}
    /\ \A ev \in evidence : \E r \in responses : r.id = ev.response_id
    /\ reply.op = "delete_assessment" /\ reply.status = 204 =>
          /\ AssessmentRows(reply.id) = {}
          /\ get_responses(reply.id) = {}
          /\ removed.responses \cap responses = {}
          /\ removed.evidence \cap evidence = {}

\* an assessment was deleted together with a response and its uploaded file
C14_Witness ==
    /\ reply.op = "delete_assessment"
    /\ reply.status = 204
    /\ removed.responses # {}
    /\ removed.evidence # {}
    /\ responses = {}
    /\ evidence = {}

CombinedCall == reply.op = "get_combined_assessment" /\ reply.status # 404

\* every tagged item of the selected level of r has its ordinal among the
\* ordinals the uploaded Evidence records of r refer to
AllTaggedCovered(r) ==
    \A k \in 1..Len(LevelEvidence(r)) :
        Tagged(LevelEvidence(r)[k]) => LevelEvidence(r)[k].evidence_id \in ReferencedOrdinals(r)

\* C15: get_combined_assessment yields one question detail per answered
\* response, whose all_specs_compliant is true iff every specification-tagged
\* item of the selected level has its evidence_id among the response's uploaded
\* ordinals; it is true when the level has no tagged item or no row.
C15_AllSpecsCompliant ==
    CombinedCall =>
        /\ reply.status = 200
        /\ LET details == reply.body.question_details
               answered == {r \in get_responses(reply.id) : r.selected_level # None}
           IN  /\ Len(details) = Cardinality(answered)
               /\ \A r \in answered :
                     \E i \in 1..Len(details) :
                        /\ details[i].question_code = r.question_id
                        /\ details[i].all_specs_compliant = AllTaggedCovered(r)

\* the score of the call is 4.75
AtUpperBoundary == fn.ret # None /\ 4 * fn.arg.num = 19 * fn.arg.den

\* C16 as stated: a score of exactly 4.75 maps to level 4, not 5.
C16_BoundaryIsFour == AtUpperBoundary => fn.ret = 4

\* C16 amended: a score of exactly 4.75 maps to level 5, not 4: 4.75 is the
\* closed lower bound of [4.75, 5.00], in the engine's threshold loop and in
\* score_to_level alike.
C16_BoundaryIsFive == AtUpperBoundary => fn.ret = 5

\* score_to_level was asked about the mean 19/4 and answered 5
C16_Witness ==
    /\ fn.name = "score_to_level"
    /\ fn.arg = Frac(19, 4)
    /\ fn.ret = 5

\* the answered responses of assessment a
AnsweredResponses(a) == {r \in responses : r.assessment_id = a /\ r.selected_level \in Levels}

\* the question of r has no maturity-level row for the selected level of r
MissingRow(r) == MaturityLevel(r.question_id, r.selected_level) = {}

\* C17 as stated: when a question lacks the maturity-level row for a
\* response's selected level, the engine treats it as a data error state and
\* does not silently skip it.
C17_DataError ==
    ComplianceCall /\ (\E r \in AnsweredResponses(reply.id) : MissingRow(r)) => reply.status # 200

\* C17 amended: when a question lacks the maturity-level row for a response's
\* selected level, the engine does not treat it as a data error: the maturity
\* engine still counts the response and its level in the domain mean, and the
\* compliance engine skips it, so that the other responses alone decide whether
\* the compliance call succeeds.
C17_MissingRowTolerated ==
    /\ MaturityReply =>
          /\ reply.body.answered_count = Cardinality(AnsweredResponses(reply.id))
          /\ \A i \in 1..Len(Domains) :
                LET A == Answered(reply.id, Domains[i])
                IN  (\E r \in A : MissingRow(r)) =>
                        IsRounded2(reply.body.domain_scores[i].score, LevelTotal(A), Cardinality(A))
    /\ ComplianceCall =>
          (reply.status = 200) =
             (\A r \in AnsweredResponses(reply.id) :
                 ResponseEvidence(r) # {} => MissingRow(r) \/ LevelEvidence(r) = <<>>)

\* DQ.MQ.1 stands at level 4, for which it has no row, and DQ scores 4.0
C17_Witness ==
    /\ MaturityReply
    /\ \E r \in AnsweredResponses(reply.id) :
          r.question_id = "DQ.MQ.1" /\ r.selected_level = 4 /\ MissingRow(r)
    /\ reply.body.domain_scores[2].score = 400
    /\ reply.body.domain_scores[2].level = 4

\* the status records the tagged items of the selected level of r call for
RecordsOf(r) ==
    {[specification_code |-> LevelEvidence(r)[k].specification_code,
      question_code |-> r.question_id,
      evidence_id |-> LevelEvidence(r)[k].evidence_id,
      status |-> IF LevelEvidence(r)[k].evidence_id \in ReferencedOrdinals(r)
                 THEN "compliant" ELSE "non_compliant",
      has_evidence |-> LevelEvidence(r)[k].evidence_id \in ReferencedOrdinals(r)] :
        k \in {j \in 1..Len(LevelEvidence(r)) : Tagged(LevelEvidence(r)[j])}}

\* C18: in calculate_compliance_score an answered response whose selected
\* level has no maturity-level row, or no acceptance evidence, contributes zero
\* records and raises no error, and the records of the other responses are
\* what they are without it.
C18_SkippedResponse ==
    /\ ComplianceCall
       /\ (\A r \in AnsweredResponses(reply.id) : LevelEvidence(r) = <<>> \/ ResponseEvidence(r) = {})
       => reply.status = 200
    /\ ComplianceReply =>
          LET detail == reply.body.specifications_detail
          IN  \A r \in AnsweredResponses(reply.id) :
                LET mine == {detail[i] : i \in {j \in 1..Len(detail) :
                                                   detail[j].question_code = r.question_id}}
                IN  IF LevelEvidence(r) = <<>> THEN mine = {} ELSE mine = RecordsOf(r)

\* a result in which DQ.MQ.1, at a level without a row and with a file
\* uploaded, has no record, next to the three records of DG.MQ.1
C18_Witness ==
    /\ ComplianceReply
    /\ \E r \in AnsweredResponses(reply.id) :
          r.question_id = "DQ.MQ.1" /\ MissingRow(r) /\ ResponseEvidence(r) # {}
    /\ \E r \in AnsweredResponses(reply.id) : r.question_id = "DG.MQ.1" /\ r.selected_level = 3
    /\ reply.body.total_specifications = 3

\* the operations that read the scores of an assessment
ReadOps ==
    {"get_maturity_score", "get_compliance_score", "get_combined_assessment",
     "get_dashboard_stats", "generate_report"}

\* the cached score fields of a row, as a read of the assessment returns them
CachedScores(row) ==
    [current_score |-> AssessmentDetail(row).current_score,
     maturity_score |-> AssessmentDetail(row).maturity_score,
     compliance_score |-> AssessmentDetail(row).compliance_score]

\* C19: the cached score fields are refreshed only on request: the reads of
\* the maturity score, the compliance score, the combined assessment, the
\* dashboard statistics and the report, and create_or_update_response, leave
\* current_score, maturity_score and compliance_score of every assessment as
\* they were, so the cached score may differ from the live one.
C19_CachedUntilRecalculate ==
    [][reply'.op \in ReadOps \cup {"create_or_update_response"} =>
          /\ {row.id : row \in assessments'} = {row.id : row \in assessments}
          /\ \A old \in assessments : \A new \in assessments' :
                old.id = new.id => CachedScores(new) = CachedScores(old)]_vars

\* the cached score is still the 3 of the last recalculation while the
\* maturity score just read is 4.0
C19_Witness ==
    /\ reply.op = "get_maturity_score"
    /\ reply.status = 200
    /\ reply.body.overall_score = 400
    /\ \E row \in AssessmentRows(reply.id) : row.current_score = 3

HoldsCurrentResults(w) ==
    /\ inflight[w].pc \in {"compliance", "write"} =>
          inflight[w].maturity = calculate_maturity_score(inflight[w].a)
    /\ inflight[w].pc = "write" =>
          inflight[w].compliance = calculate_compliance_score(inflight[w].a)

\* C22: the maturity and compliance results computed for an assessment depend
\* only on its own responses and evidence and on the taxonomy: whatever is
\* created, edited, uploaded, deleted or scored for another assessment while
\* the computation is in flight, the results it holds stay those of its own
\* unchanged data.
C22_Isolation ==
    \A w \in Workers :
        inflight[w].op = "recalculate_scores" /\ inflight[w].clean => HoldsCurrentResults(w)

\* A1, answered at level 3, and A2, answered at level 4 with a file uploaded,
\* are being scored at the same time
C22_Witness ==
    /\ inflight["w1"].op = "recalculate_scores"
    /\ inflight["w1"].pc = "write"
    /\ inflight["w1"].maturity.overall_score = 300
    /\ inflight["w1"].compliance.total_specifications = 3
    /\ inflight["w2"].op = "recalculate_scores"
    /\ inflight["w2"].pc = "compliance"
    /\ inflight["w2"].maturity.overall_score = 400
    /\ \E ev \in evidence : ev.response_id = ResponseId("A2", "DG.MQ.1", 0)

\* the answered responses of a that have an uploaded file and a
\* specification-tagged item at their selected level
UploadedAndTagged(a) ==
    {r \in AnsweredResponses(a) :
        /\ ResponseEvidence(r) # {}
        /\ \E k \in 1..Len(LevelEvidence(r)) : Tagged(LevelEvidence(r)[k])}

\* C23: after upload_evidence attaches a file to an answered response, the
\* stored Evidence record carries the acceptance-evidence ordinal it satisfies,
\* and a following calculate_compliance_score reports the tagged item with
\* that ordinal at the selected level as compliant, so compliant_count > 0.
C23_UploadMakesCompliant ==
    /\ \A ev \in evidence : HasAttr(ev, "evidence_id")
    /\ ComplianceCall /\ UploadedAndTagged(reply.id) # {} =>
          /\ reply.status = 200
          /\ reply.body.compliant_count > 0

\* every record of a returned specifications_detail is a tagged item of the
\* selected level of a response to its question, compliant only if an uploaded
\* file of that response refers to the item's own ordinal
OwnLevelOnly ==
    ComplianceReply =>
        LET detail == reply.body.specifications_detail
        IN  \A i \in 1..Len(detail) :
              \E r \in AnsweredResponses(reply.id) :
                 /\ r.question_id = detail[i].question_code
                 /\ \E k \in 1..Len(AcceptanceEvidence(r.question_id, r.selected_level)) :
                       LET item == AcceptanceEvidence(r.question_id, r.selected_level)[k]
                       IN  /\ item.evidence_id = detail[i].evidence_id
                           /\ item.specification_code = detail[i].specification_code
                 /\ detail[i].status = "compliant" => detail[i].evidence_id \in ReferencedOrdinals(r)

\* C24: the compliance result does not depend on inherits_from_level: when the
\* taxonomy is replaced by one that differs only in these values, the result
\* for the same responses is the same, and no item is reported, or counted
\* compliant, on account of the corresponding item of a lower level.
C24_InheritanceIgnored ==
    /\ ComplianceCall =>
          LET result == calculate_compliance_score(reply.id)
          IN  IF reply.status = 200
              THEN result = reply.body
              ELSE result.exception # NoneStr
    /\ OwnLevelOnly

\* under seed data in which every item inherits from the level below, a result
\* lists the item of level 3 of DQ.MQ.1 and the two items of level 5 of DG.MQ.1
C24_Witness ==
    /\ inherits = "lower"
    /\ ComplianceReply
    /\ reply.body.total_specifications = 3
    /\ \E i \in 1..Len(reply.body.specifications_detail) :
          reply.body.specifications_detail[i].specification_code = "S.3.1"
    /\ \E i \in 1..Len(reply.body.specifications_detail) :
          reply.body.specifications_detail[i].specification_code = "S.5.2"

\* C25: the three score-to-level functions (ScoreService._get_level_from_score,
\* assessment_service.score_to_level, routers/assessments.score_to_level)
\* return the same level for every score, at every threshold, below 0 and
\* above 5: whichever of them was called, the other two return what it did.
C25_SameLevel ==
    fn.ret # None =>
        /\ fn.ret = get_level_from_score(fn.arg)
        /\ fn.ret = score_to_level(fn.arg)
        /\ fn.ret = routers_score_to_level(fn.arg)

\* a score above every entry of the threshold table, 6.0, given to the table
\* loop, which falls through to level 5 as the chains do
C25_Witness ==
    /\ fn.name = "_get_level_from_score"
    /\ fn.arg = Frac(6, 1)
    /\ fn.ret = 5
    /\ routers_score_to_level(fn.arg) = 5

\* the divisors of the two calculations for assessment a are positive: the
\* answered count of a domain, the number of domain means, the specification
\* count
DivisorsPositive(a) ==
    LET rs == get_responses(a)
    IN  /\ \A i \in 1..Len(Domains) : DomainAvg(rs, Domains[i]).den > 0
        /\ OverallScore(AllScores(rs)).den > 0
        /\ get_total_questions > 0

\* C26: for every assessment with selected_level null or 0..5 and every
\* taxonomy (also one without domains, without questions, or with a domain
\* without questions) the two calculations divide by no zero, and a returned
\* result has overall_score in [0, 5], overall_level and every domain level in
\* 0..5, overall_percentage and compliance_percentage in [0, 100].
C26_Ranges ==
    /\ \A a \in AssessmentIds : DivisorsPositive(a)
    /\ MaturityReply =>
          /\ reply.body.overall_score \in 0..500
          /\ reply.body.overall_level \in 0..5
          /\ reply.body.overall_percentage \in 0..1000
          /\ \A i \in 1..Len(reply.body.domain_scores) :
                reply.body.domain_scores[i].level \in 0..5
    /\ ComplianceReply =>
          /\ reply.body.compliance_percentage \in 0..1000
          /\ reply.body.total_specifications > 0 \/ reply.body.compliance_percentage = 0

\* the maturity result over a taxonomy without domains: no domain entry,
\* score 0.0 at level 0, and the fallback question count
C26_Witness ==
    /\ seed = "no_domains"
    /\ MaturityReply
    /\ reply.body.domain_scores = <<>>
    /\ reply.body.overall_score = 0
    /\ reply.body.overall_level = 0
    /\ reply.body.total_questions = 42

\* the current_score submit_assessment stores for a: the mean of all answered levels
StoredBySubmit(a) == calculate_score(a).num \div calculate_score(a).den

\* the current_score the recalculation stores for a: the mean of the domain means
StoredByRecalculate(a) == IntegerColumn(calculate_maturity_score(a).overall_score)

\* C27: for the same responses submit_assessment and recalculate store the
\* same current_score: after either of them has succeeded, the stored value
\* is the one the other would store (the mean of all answered levels equals
\* the mean of the per-domain means).
C27_SameStoredScore ==
    \A row \in assessments :
        /\ reply.id = row.id
        /\ reply.status = 200
        /\ reply.op \in {"submit_assessment", "recalculate_scores"}
        => /\ row.current_score = StoredBySubmit(row.id)
           /\ row.current_score = StoredByRecalculate(row.id)

\* C28: in every reachable state a completed assessment has completed_at
\* set: update_assessment with status completed and submit_assessment set it,
\* and update_assessment never overwrites a completed_at that is already set.
C28_CompletedAt ==
    [][/\ \A row \in assessments' : row.status = "completed" => row.completed_at # None
       /\ reply'.op = "update_assessment" =>
             \A old \in assessments, new \in assessments' :
                 old.id = new.id /\ old.completed_at # None =>
                     new.completed_at = old.completed_at]_vars

\* an assessment submitted at the second clock reading (its score is stored)
\* keeps that reading through a later update_assessment
C28_Witness ==
    /\ reply.op = "update_assessment"
    /\ reply.status = 200
    /\ reply.body.status = "completed"
    /\ \E row \in AssessmentRows(reply.id) :
          /\ row.status = "completed"
          /\ row.current_score # None
          /\ row.completed_at = utcnow + 1

\* the level of the threshold table for a score of h hundredths
TableLevel(h) ==
    IF h < 25 THEN 0 ELSE IF h < 125 THEN 1 ELSE IF h < 250 THEN 2
    ELSE IF h < 400 THEN 3 ELSE IF h < 475 THEN 4 ELSE 5

\* the level of the threshold table for the exact score n / d
TableLevelOf(n, d) ==
    IF 4 * n < d THEN 0 ELSE IF 4 * n < 5 * d THEN 1 ELSE IF 2 * n < 5 * d THEN 2
    ELSE IF n < 4 * d THEN 3 ELSE IF 4 * n < 19 * d THEN 4 ELSE 5

\* C29: in every MaturityScoreResult overall_level is the threshold-table
\* level of overall_score as returned (rounded to 2 decimals), and the level
\* of every domain entry is the table level of its returned score.
C29_LevelOfReturnedScore ==
    MaturityReply =>
        /\ reply.body.overall_level = TableLevel(reply.body.overall_score)
        /\ \A i \in 1..Len(reply.body.domain_scores) :
              reply.body.domain_scores[i].level = TableLevel(reply.body.domain_scores[i].score)

\* C29, amended: the levels are the table levels of the means before
\* rounding; the level of the returned score is that level or, when rounding
\* lifted the score onto a threshold, the next one.
C29_LevelOfMean ==
    MaturityReply =>
        LET ad == AnsweredDomains(reply.id)
        IN  /\ reply.body.overall_level =
                  IF ad = {} THEN 0
                  ELSE TableLevelOf(MeanTotal(reply.id, ad, ad),
                                    Cardinality(ad) * CountProduct(reply.id, ad))
            /\ TableLevel(reply.body.overall_score) - reply.body.overall_level \in {0, 1}
            /\ \A i \in 1..Len(reply.body.domain_scores) :
                  LET A == Answered(reply.id, Domains[i])
                      ds == reply.body.domain_scores[i]
                  IN  /\ ds.level = IF A = {} THEN 0
                                    ELSE TableLevelOf(LevelTotal(A), Cardinality(A))
                      /\ TableLevel(ds.score) - ds.level \in {0, 1}

\* domain means 14/3, 5 and 32/7: the overall mean 299/63 = 4.746 is
\* returned as 4.75 with level 4
C29_Witness ==
    /\ MaturityReply
    /\ reply.body.overall_score = 475
    /\ reply.body.overall_level = 4
    /\ LevelTotal(Answered(reply.id, "BIA")) = 32

CombinedReply == reply.op = "get_combined_assessment" /\ reply.status = 200

\* the (question, entry) positions of the specifications_status entries with
\* uploaded true
UploadedEntries(details) ==
    {<<i, k>> \in UNION {{<<j, m>> : m \in 1..Len(details[j].specifications_status)} :
                           j \in 1..Len(details)} :
        details[i].specifications_status[k].uploaded}

\* C30: in every CombinedAssessmentResult compliance.is_compliant is true
\* iff total_specifications > 0 and every question_details entry has
\* all_specs_compliant true, and compliance.compliant_count is the number of
\* specifications_status entries with uploaded true over all question_details.
C30_ViewsAgree ==
    CombinedReply =>
        LET compliance == reply.body.compliance
            details == reply.body.question_details
        IN  /\ compliance.is_compliant <=>
                  /\ compliance.total_specifications > 0
                  /\ \A i \in 1..Len(details) : details[i].all_specs_compliant
            /\ compliance.compliant_count = Cardinality(UploadedEntries(details))

\* a combined result over three tagged items and a question whose level has
\* no tagged item: one entry with all_specs_compliant false, one with true
C30_Witness ==
    /\ CombinedReply
    /\ reply.body.compliance.total_specifications = 3
    /\ ~reply.body.compliance.is_compliant
    /\ \E i \in 1..Len(reply.body.question_details) :
          /\ ~reply.body.question_details[i].all_specs_compliant
          /\ Len(reply.body.question_details[i].specifications_status) = 3
    /\ \E i \in 1..Len(reply.body.question_details) :
          reply.body.question_details[i].all_specs_compliant

====
